---- MODULE Spec2Model ----
(***************************************************************************)
(* Decisify: a thin layer over a mathematical solver (gurobipy) and an     *)
(* external language-model service.  The model covers                      *)
(*   - the solver status enumeration and OptModel.is_solved,               *)
(*   - the transportation example: _generate_opt_model and get_solution,   *)
(*   - GurobiModelMetaData (metadata extraction),                          *)
(*   - GurobiInterrogator (__init__, answer, explain, what_if) with the    *)
(*     two helpers of utils.py that call the language model,               *)
(*   - the instantiation guards of the abstract base types.                *)
(* The solver and the language model are collaborators outside the         *)
(* repository.  The solver is modelled by what it computes on the linear   *)
(* program the code hands it (feasibility, an optimal vertex, optimal      *)
(* duals, an irreducible inconsistent subsystem); the language model by a  *)
(* nondeterministic outcome of every call (failure, or some response).     *)
(***************************************************************************)
EXTENDS Integers, Sequences, FiniteSets, TLC

VARIABLES
    solver,        \* the solver build's tie-breaking rule; fixed for a run
    model,         \* trnsprt_model.model: the gp.Model of the TransportationModel instance
    interrogator,  \* the GurobiInterrogator instance (its three stored fields)
    last,          \* what the most recent operation did and returned
    prev,          \* the operation before it
    instances      \* the classes of which an object has been created

vars == <<solver, model, interrogator, last, prev, instances>>

-----------------------------------------------------------------------------
(* Python values *)

\* None, and a value that is present.
Null == <<>>
Some(v) == <<v>>

\* An attribute that has never been assigned (reading it raises AttributeError).
Unset == [kind |-> "unset"]

RangeOf(s) == {s[k] : k \in 1..Len(s)}

RECURSIVE SumOver(_, _)
SumOver(f, S) ==
    IF S = {} THEN 0
    ELSE LET e == CHOOSE e \in S : TRUE
         IN  f[e] + SumOver(f, S \ {e})

Minimum(S) == CHOOSE v \in S : \A u \in S : v <= u
Maximum(S) == CHOOSE v \in S : \A u \in S : v >= u

-----------------------------------------------------------------------------
(* core.py: SolveStatus, the solver's status codes *)

LOADED == 1
OPTIMAL == 2
INFEASIBLE == 3
INF_OR_UNBD == 4
UNBOUNDED == 5
CUTOFF == 6
ITERATION_LIMIT == 7
NODE_LIMIT == 8
TIME_LIMIT == 9
SOLUTION_LIMIT == 10
INTERRUPTED == 11
NUMERIC == 12
SUBOPTIMAL == 13
INPROGRESS == 14
USER_OBJ_LIMIT == 15
WORK_LIMIT == 16
MEM_LIMIT == 17

StatusCodes == LOADED..MEM_LIMIT

\* The GRB constants the code compares a status with.  GRB.OPTIMAL and
\* GRB.TIME_LIMIT are the status codes of those names.  GRB.INTEGER is the
\* variable-type character 'I' of the solver's API, not a status code: no
\* member of the enumeration is called INTEGER.
GRB_OPTIMAL == [type |-> "int", value |-> Some(OPTIMAL), text |-> Null]
GRB_TIME_LIMIT == [type |-> "int", value |-> Some(TIME_LIMIT), text |-> Null]
GRB_INTEGER == [type |-> "str", value |-> Null, text |-> Some("I")]

\* GRB.MINIMIZE
GRB_MINIMIZE == 1

\* Python's == between a status code (an int) and a GRB constant: an int and a
\* str are never equal.
PyEq(status, const) == const.type = "int" /\ const.value = Some(status)

-----------------------------------------------------------------------------
(* transportation.py: the input records *)

\* How far a what-if may scale the costs and shift a demand in this model.
MaxCostScale == 2
MaxDemandShift == 1

\* The literal example data (transportation.py lines 11-18, 114-119).
Example ==
    [warehouses |-> <<"W1", "W2">>,
     customers  |-> <<"C1", "C2", "C3">>,
     supply     |-> ("W1" :> 20 @@ "W2" :> 30),
     demand     |-> ("C1" :> 10 @@ "C2" :> 10 @@ "C3" :> 30),
     cost       |-> ("W1" :> ("C1" :> 2 @@ "C2" :> 3 @@ "C3" :> 1) @@
                     "W2" :> ("C1" :> 4 @@ "C2" :> 1 @@ "C3" :> 3))]

\* Records of the same class that the structured transform may hand back: the
\* schema checks field types only, so none of these is rejected.
ScaleCost(i, k) ==
    [i EXCEPT !.cost = [w \in DOMAIN i.cost |->
                           [c \in DOMAIN i.cost[w] |-> k * i.cost[w][c]]]]

ShiftDemand(i, c, d) == [i EXCEPT !.demand[c] = @ + d]

NegativeSupply == [Example EXCEPT !.supply["W1"] = -1]

\* A warehouse added to the list with no supply and no cost entry.
ExtraWarehouse == [Example EXCEPT !.warehouses = Append(@, "W3")]

Inputs ==
    {ScaleCost(Example, k) : k \in 1..MaxCostScale}
    \cup {ShiftDemand(Example, "C1", d) : d \in (0 - MaxDemandShift)..MaxDemandShift}
    \cup {NegativeSupply, ExtraWarehouse}

-----------------------------------------------------------------------------
(* transportation.py: _generate_opt_model *)

\* The dict lookups of lines 52, 55 and 58 all succeed (else KeyError).
WellKeyed(i) ==
    /\ \A w \in RangeOf(i.warehouses) :
          /\ w \in DOMAIN i.supply
          /\ w \in DOMAIN i.cost
          /\ \A c \in RangeOf(i.customers) : c \in DOMAIN i.cost[w]
    /\ \A c \in RangeOf(i.customers) : c \in DOMAIN i.demand

\* model.addVars(warehouses, customers): one variable per pair, in row-major
\* order, lower bound 0, no upper bound; setObjective gives x[w,c] the
\* coefficient cost[w][c].
VarSeq(i) ==
    LET nW == Len(i.warehouses)
        nC == Len(i.customers)
    IN  [k \in 1..(nW * nC) |->
            <<i.warehouses[((k - 1) \div nC) + 1], i.customers[((k - 1) % nC) + 1]>>]

VarsOf_UnitCost(i) ==
    [p \in RangeOf(VarSeq(i)) |-> [LB |-> 0, UB |-> "inf", Obj |-> 1]]

VarsOf(i) ==
    [p \in RangeOf(VarSeq(i)) |->
        [LB |-> 0, UB |-> "inf", Obj |-> i.cost[p[1]][p[2]]]]

\* addConstrs(..., "Supply") then addConstrs(..., "Demand").
ConstrSeq(i) ==
    [k \in 1..Len(i.warehouses) |-> <<"Supply", i.warehouses[k]>>]
    \o [k \in 1..Len(i.customers) |-> <<"Demand", i.customers[k]>>]

ConstrsOf(i) ==
    [n \in RangeOf(ConstrSeq(i)) |->
        IF n[1] = "Supply"
        THEN [Sense |-> "<", RHS |-> i.supply[n[2]],
              row |-> {p \in RangeOf(VarSeq(i)) : p[1] = n[2]}]
        ELSE [Sense |-> "=", RHS |-> i.demand[n[2]],
              row |-> {p \in RangeOf(VarSeq(i)) : p[2] = n[2]}]]

\* gp.Model("transportation") as line 60 stores it: a fresh solver object,
\* status LOADED, with no solution, no duals and no IIS.
gp_Model(i) ==
    [kind       |-> "gp.Model",
     ModelName  |-> "transportation",
     ModelSense |-> GRB_MINIMIZE,
     varSeq     |-> VarSeq(i),
     vars       |-> VarsOf(i),
     constrSeq  |-> ConstrSeq(i),
     constrs    |-> ConstrsOf(i),
     Status     |-> LOADED,
     X          |-> Null,
     ObjVal     |-> Null,
     Pi         |-> Null,
     IIS        |-> Null]

\* The linear program of a solver object, without its solution state.
LP(m) == [vars |-> m.vars, constrs |-> m.constrs,
          varSeq |-> m.varSeq, constrSeq |-> m.constrSeq]

-----------------------------------------------------------------------------
(* The solver: Model.optimize() and Model.computeIIS() on a transportation  *)
(* program (rows "Supply" <= and "Demand" =, variables >= 0).  The data are *)
(* integers and the constraint matrix is totally unimodular, so the program *)
(* is feasible iff it has an integer solution, its optimal vertices are     *)
(* integer, and Farkas certificates can be taken with entries in {-1,0,1}.  *)

WarehousesOf(lp) == {p[1] : p \in DOMAIN lp.vars}
CustomersOf(lp) == {p[2] : p \in DOMAIN lp.vars}

\* The ways to split the demand d among the warehouses Ws.
Splits(d, Ws) == {f \in [Ws -> 0..d] : SumOver(f, Ws) = d}

\* The nonnegative integer flows that meet every demand row in Cs.
RECURSIVE Plans(_, _)
Plans(lp, Cs) ==
    IF Cs = {} THEN {<<>>}
    ELSE LET c == CHOOSE c \in Cs : TRUE
             Ws == WarehousesOf(lp)
         IN  {rest @@ [p \in {<<w, c>> : w \in Ws} |-> s[p[1]]] :
                 rest \in Plans(lp, Cs \ {c}),
                 s \in Splits(lp.constrs[<<"Demand", c>>].RHS, Ws)}

Satisfies(x, con) ==
    IF con.Sense = "<" THEN SumOver(x, con.row) <= con.RHS
    ELSE SumOver(x, con.row) = con.RHS

Feasible(lp) ==
    {x \in Plans(lp, CustomersOf(lp)) :
        /\ \A p \in DOMAIN lp.vars : x[p] >= lp.vars[p].LB
        /\ \A n \in DOMAIN lp.constrs : Satisfies(x, lp.constrs[n])}

Objective(lp, x) ==
    SumOver([p \in DOMAIN lp.vars |-> lp.vars[p].Obj * x[p]], DOMAIN lp.vars)

OptimalPlans(lp) ==
    LET F == Feasible(lp)
        best == Minimum({Objective(lp, x) : x \in F})
    IN  {x \in F : Objective(lp, x) = best}

\* The solver returns a vertex of the optimal face; which one is the build's
\* business.  The lexicographically least and greatest optimal plans (in the
\* order of getVars()) are vertices.
LexLess(x, y, seq) ==
    \E k \in 1..Len(seq) :
        /\ x[seq[k]] < y[seq[k]]
        /\ \A j \in 1..(k - 1) : x[seq[j]] = y[seq[j]]

Solvers == {"lexmin", "lexmax"}

Pick(rule, S, seq) ==
    IF rule = "lexmin"
    THEN CHOOSE x \in S : \A y \in S : y = x \/ LexLess(x, y, seq)
    ELSE CHOOSE x \in S : \A y \in S : y = x \/ LexLess(y, x, seq)

\* Optimal duals (the constraints' Pi): u[w] <= 0 on the supply rows, and on
\* each demand row the largest v[c] with u[w] + v[c] <= Obj[w,c] for all w.
DualOf(lp, u) ==
    [n \in DOMAIN lp.constrs |->
        IF n[1] = "Supply" THEN u[n[2]]
        ELSE Minimum({lp.vars[<<w, n[2]>>].Obj - u[w] : w \in WarehousesOf(lp)})]

DualObjective(lp, pi) ==
    SumOver([n \in DOMAIN lp.constrs |-> lp.constrs[n].RHS * pi[n]], DOMAIN lp.constrs)

Duals(lp) ==
    LET objs == {lp.vars[p].Obj : p \in DOMAIN lp.vars}
        span == (Cardinality(WarehousesOf(lp)) - 1) * (Maximum(objs) - Minimum(objs))
    IN  {DualOf(lp, u) : u \in [WarehousesOf(lp) -> (0 - span)..0]}

OptimalDuals(lp) ==
    LET D == Duals(lp)
        best == Maximum({DualObjective(lp, pi) : pi \in D})
    IN  {pi \in D : DualObjective(lp, pi) = best}

\* Farkas certificates of infeasibility: multipliers y[w] >= 0 on the supply
\* rows and z[c] on the demand rows whose combination has a nonnegative
\* coefficient y[w] + z[c] on every variable and a negative right-hand side.
Certificates(lp) ==
    {yz \in {[y |-> y, z |-> z] : y \in [WarehousesOf(lp) -> 0..1],
                                  z \in [CustomersOf(lp) -> (0 - 1)..1]} :
        /\ \A p \in DOMAIN lp.vars : yz.y[p[1]] + yz.z[p[2]] >= 0
        /\ SumOver([w \in WarehousesOf(lp) |->
                       yz.y[w] * lp.constrs[<<"Supply", w>>].RHS], WarehousesOf(lp))
           + SumOver([c \in CustomersOf(lp) |->
                       yz.z[c] * lp.constrs[<<"Demand", c>>].RHS], CustomersOf(lp))
           < 0}

\* The rows and lower bounds a certificate uses: an infeasible subsystem.
\* (No variable has an upper bound, so no upper bound is ever used.)
Subsystem(lp, yz) ==
    [constrs |-> {n \in DOMAIN lp.constrs :
                     IF n[1] = "Supply" THEN yz.y[n[2]] = 1 ELSE yz.z[n[2]] # 0},
     lbs     |-> {p \in DOMAIN lp.vars : yz.y[p[1]] + yz.z[p[2]] > 0},
     ubs     |-> {}]

Within(a, b) == a.constrs \subseteq b.constrs /\ a.lbs \subseteq b.lbs

\* The irreducible inconsistent subsystems: the minimal infeasible ones.
IISs(lp) ==
    LET all == {Subsystem(lp, yz) : yz \in Certificates(lp)}
    IN  {s \in all : \A t \in all : Within(t, s) => t = s}

\* What optimize() and computeIIS() find on each program the model can build,
\* under each tie-breaking rule.
Solve(lp, rule) ==
    IF Certificates(lp) = {}
    THEN LET x == Pick(rule, OptimalPlans(lp), lp.varSeq)
         IN  [feasible |-> TRUE,
              X        |-> x,
              ObjVal   |-> Objective(lp, x),
              Pi       |-> Pick(rule, OptimalDuals(lp), lp.constrSeq),
              IISs     |-> {}]
    ELSE [feasible |-> FALSE, X |-> <<>>, ObjVal |-> 0, Pi |-> <<>>,
          IISs |-> IISs(lp)]

Programs == {LP(gp_Model(i)) : i \in {j \in Inputs : WellKeyed(j)}}

SolverTable == [lp \in Programs |-> [rule \in Solvers |-> Solve(lp, rule)]]

-----------------------------------------------------------------------------
(* optimizer.py: OptModel.solve_model and OptModel.is_solved *)

\* self.model.optimize(): the possible solver objects afterwards.  A feasible
\* program ends OPTIMAL with a solution and duals.  An infeasible one ends
\* INFEASIBLE or, when presolve cannot tell, INF_OR_UNBD.  The rows are
\* bounded by the demands, so no program of this model is unbounded; no limit
\* is ever set on the solver (opt_settings is stored, never applied).
optimize(m, rule) ==
    LET r == SolverTable[LP(m)][rule]
    IN  IF r.feasible
        THEN {[m EXCEPT !.Status = OPTIMAL, !.X = Some(r.X),
                        !.ObjVal = Some(r.ObjVal), !.Pi = Some(r.Pi), !.IIS = Null]}
        ELSE {[m EXCEPT !.Status = st, !.X = Null, !.ObjVal = Null,
                        !.Pi = Null, !.IIS = Null] : st \in {INFEASIBLE, INF_OR_UNBD}}

\* self.model.computeIIS(): marks one irreducible inconsistent subsystem
\* (IISConstr, IISLB, IISUB); on a feasible program it raises.
computeIIS(m, rule) ==
    {[m EXCEPT !.IIS = Some(s)] : s \in SolverTable[LP(m)][rule].IISs}

is_solved_NoTimeLimit(m) ==
    PyEq(m.Status, GRB_OPTIMAL) \/ PyEq(m.Status, GRB_INTEGER)

is_solved(m) ==
    \/ PyEq(m.Status, GRB_OPTIMAL)
    \/ PyEq(m.Status, GRB_INTEGER)
    \/ PyEq(m.Status, GRB_TIME_LIMIT)

-----------------------------------------------------------------------------
(* optimizer.py: GurobiModelMetaData *)

\* json.dumps / model_dump_json / str(): serialized text of a value.
Json(x) == [json |-> x]
Str(x) == [str |-> x]

get_basic_info(m) ==
    [ModelName      |-> m.ModelName,
     NumVars        |-> Len(m.varSeq),
     NumConstrs     |-> Len(m.constrSeq),
     NumQConstrs    |-> 0,
     NumSOS         |-> 0,
     ObjectiveSense |-> IF m.ModelSense = GRB_MINIMIZE THEN "Minimize" ELSE "Maximize"]

get_variables_info_Ungated(m) ==
    [k \in 1..Len(m.varSeq) |->
        LET p == m.varSeq[k]
        IN  [Name           |-> <<"x", p>>,
             LowerBound     |-> m.vars[p].LB,
             UpperBound     |-> m.vars[p].UB,
             ObjectiveCoeff |-> m.vars[p].Obj,
             SolutionValue  |-> IF m.X # Null THEN Some(m.X[1][p]) ELSE Some(0)]]

get_variables_info(m) ==
    [k \in 1..Len(m.varSeq) |->
        LET p == m.varSeq[k]
        IN  [Name           |-> <<"x", p>>,
             LowerBound     |-> m.vars[p].LB,
             UpperBound     |-> m.vars[p].UB,
             ObjectiveCoeff |-> m.vars[p].Obj,
             SolutionValue  |-> IF PyEq(m.Status, GRB_OPTIMAL)
                                THEN Some(m.X[1][p]) ELSE Null]]

get_constraints_info(m) ==
    [k \in 1..Len(m.constrSeq) |->
        LET n == m.constrSeq[k]
        IN  [Name        |-> n,
             Sense       |-> m.constrs[n].Sense,
             RHS         |-> m.constrs[n].RHS,
             ShadowPrice |-> IF PyEq(m.Status, GRB_OPTIMAL)
                             THEN Some(m.Pi[1][n]) ELSE Null]]

\* Runtime (wall-clock seconds) is left out.  The program is continuous, so
\* it has no MIPGap attribute (hasattr is false) and its NodeCount is 0.
get_solution_info(m) ==
    IF PyEq(m.Status, GRB_OPTIMAL)
    THEN [Status         |-> "Optimal",
          ObjectiveValue |-> m.ObjVal[1],
          MIPGap         |-> Null,
          NodeCount      |-> 0]
    ELSE [Status |-> m.Status]

metadata(m) ==
    [BasicInfo   |-> get_basic_info(m),
     Variables   |-> get_variables_info(m),
     Constraints |-> get_constraints_info(m),
     Solution    |-> get_solution_info(m)]

get_metadata_as_json(m) == Json(metadata(m))

-----------------------------------------------------------------------------
(* transportation.py: TransportationModel.get_solution *)

NoValue == [kind |-> "none"]

\* TransportationOutputs(status, total_cost, solution)
TransportationOutputs(status, total_cost, solution) ==
    [kind |-> "TransportationOutputs", status |-> status,
     total_cost |-> total_cost, solution |-> solution]

\* The flows above the 1e-6 display filter; the flows are integers here.
PositiveFlows(x) == [p \in {q \in DOMAIN x : x[q] > 0} |-> x[p]]

\* f"Model is infeasible. {iis_details}": the constraints with IISConstr, and
\* the variables with IISLB and with IISUB, in the solver's order.
Diagnostic_BoundsOnly(m) ==
    [kind        |-> "str",
     constraints |-> <<>>,
     lower       |-> SelectSeq(m.varSeq, LAMBDA p : p \in m.IIS[1].lbs),
     upper       |-> SelectSeq(m.varSeq, LAMBDA p : p \in m.IIS[1].ubs)]

Diagnostic(m) ==
    [kind        |-> "str",
     constraints |-> SelectSeq(m.constrSeq, LAMBDA n : n \in m.IIS[1].constrs),
     lower       |-> SelectSeq(m.varSeq, LAMBDA p : p \in m.IIS[1].lbs),
     upper       |-> SelectSeq(m.varSeq, LAMBDA p : p \in m.IIS[1].ubs)]

\* One call: what it leaves in self.model, what it returns or raises, and how
\* often it generated a model, ran optimize() and ran computeIIS().
Outcome(m, ret, error, gen, solves, iis) ==
    [model |-> m, ret |-> ret, error |-> error,
     gen |-> gen, solves |-> solves, iis |-> iis]

\* Lines 78-109: the branch taken when the fresh model is not solved.
SolveAndReport(m0, rule) ==
    UNION {
        IF is_solved(m1)
        THEN {Outcome(m1, TransportationOutputs(m1.Status, m1.ObjVal[1],
                                                PositiveFlows(m1.X[1])),
                      "none", 1, 1, 0)}
        ELSE IF computeIIS(m1, rule) = {}
             THEN {Outcome(m1, NoValue, "GurobiError", 1, 1, 1)}
             ELSE {Outcome(m2, Diagnostic(m2), "none", 1, 1, 1) :
                      m2 \in computeIIS(m1, rule)}
        : m1 \in optimize(m0, rule)}

\* Lines 67-76: the branch taken when is_solved() holds right after
\* generation; a model with no solution has no .x to read.
ReadSolved(m0) ==
    IF m0.X = Null
    THEN {Outcome(m0, NoValue, "AttributeError", 1, 0, 0)}
    ELSE {Outcome(m0, TransportationOutputs(OPTIMAL, m0.ObjVal[1], m0.X[1]),
                  "none", 1, 0, 0)}

\* get_solution(input_data) on an instance whose self.model is `m`.  Line 66
\* generates a fresh model first; a KeyError there leaves self.model as it was.
get_solution(m, i, rule) ==
    IF ~WellKeyed(i)
    THEN {Outcome(m, NoValue, "KeyError", 1, 0, 0)}
    ELSE IF is_solved(gp_Model(i))
         THEN ReadSolved(gp_Model(i))
         ELSE SolveAndReport(gp_Model(i), rule)

-----------------------------------------------------------------------------
(* The record of an operation *)

Did(op, arg, o, llm, dumped) ==
    [op |-> op, arg |-> arg, ret |-> o.ret, error |-> o.error,
     gen |-> o.gen, solves |-> o.solves, iis |-> o.iis,
     llm |-> llm, dumped |-> dumped]

NoOp == Did("none", NoValue, Outcome(Unset, NoValue, "none", 0, 0, 0), <<>>, <<>>)

Init ==
    /\ solver \in Solvers
    /\ model = Unset
    /\ interrogator = Unset
    /\ last = NoOp
    /\ prev = NoOp
    /\ instances = {}

-----------------------------------------------------------------------------
(* Operations on the TransportationModel instance *)

\* trnsprt_model._generate_opt_model(i)
GenerateOptModel(i) ==
    /\ model' = IF WellKeyed(i) THEN gp_Model(i) ELSE model
    /\ last' = Did("_generate_opt_model", i,
                   Outcome(model', NoValue,
                           IF WellKeyed(i) THEN "none" ELSE "KeyError", 1, 0, 0),
                   <<>>, <<>>)
    /\ prev' = last
    /\ UNCHANGED <<solver, interrogator, instances>>

\* trnsprt_model.solve_model()
SolveModel ==
    /\ IF model = Unset
       THEN /\ model' = model
            /\ last' = Did("solve_model", NoValue,
                           Outcome(model, NoValue, "AttributeError", 0, 0, 0),
                           <<>>, <<>>)
       ELSE /\ model' \in optimize(model, solver)
            /\ last' = Did("solve_model", NoValue,
                           Outcome(model', NoValue, "none", 0, 1, 0), <<>>, <<>>)
    /\ prev' = last
    /\ UNCHANGED <<solver, interrogator, instances>>

\* trnsprt_model.is_solved()
IsSolved ==
    /\ last' = IF model = Unset
               THEN Did("is_solved", NoValue,
                        Outcome(model, NoValue, "AttributeError", 0, 0, 0),
                        <<>>, <<>>)
               ELSE Did("is_solved", NoValue,
                        Outcome(model, [kind |-> "bool", value |-> is_solved(model)],
                                "none", 0, 0, 0),
                        <<>>, <<>>)
    /\ prev' = last
    /\ UNCHANGED <<solver, model, interrogator, instances>>

\* trnsprt_model.get_solution(i)
GetSolution(i) ==
    /\ \E o \in get_solution(model, i, solver) :
          /\ model' = o.model
          /\ last' = Did("get_solution", i, o, <<>>, <<>>)
    /\ prev' = last
    /\ UNCHANGED <<solver, interrogator, instances>>

\* GurobiModelMetaData(trnsprt_model).get_metadata_as_json(); the constructor
\* reads trnsprt_model.model.
GetMetadata ==
    /\ IF model = Unset
       THEN last' = Did("get_metadata_as_json", NoValue,
                        Outcome(model, NoValue, "AttributeError", 0, 0, 0),
                        <<>>, <<>>)
       ELSE last' = Did("get_metadata_as_json", NoValue,
                        Outcome(model, get_metadata_as_json(model), "none", 0, 0, 0),
                        <<>>, <<>>)
    /\ model' = model
    /\ prev' = last
    /\ UNCHANGED <<solver, interrogator, instances>>

Next ==
    \/ \E i \in Inputs : GenerateOptModel(i)
    \/ SolveModel
    \/ IsSolved
    \/ \E i \in Inputs : GetSolution(i)
    \/ GetMetadata

Spec == Init /\ [][Next]_vars

-----------------------------------------------------------------------------
(* utils.py: the calls to the external language-model service *)

\* How many distinct user queries the model tries.
NumQueries == 2
Queries == 1..NumQueries

\* The free text the service answers with.
Text == [kind |-> "text"]

\* One request: the call made, the response schema asked for, and what the
\* prompt holds of the user's query and of serialized data.
Request(api, response_model, query, context) ==
    [api |-> api, response_model |-> response_model,
     query |-> query, context |-> context]

\* The attempts one call site makes: a single round trip, which fails or
\* brings back one of the possible responses.
Attempts_Retry(request, responses) ==
    LET once == {<<[request |-> request, ok |-> FALSE, response |-> Null]>>}
                \cup {<<[request |-> request, ok |-> TRUE, response |-> Some(r)]>> :
                         r \in responses}
    IN  once \cup {<<[request |-> request, ok |-> FALSE, response |-> Null]>> \o a :
                      a \in once}

Attempts(request, responses) ==
    {<<[request |-> request, ok |-> FALSE, response |-> Null]>>}
    \cup {<<[request |-> request, ok |-> TRUE, response |-> Some(r)]>> :
             r \in responses}

Succeeded(a) == a[Len(a)].ok
Response(a) == a[Len(a)].response[1]

\* What a helper did: its round trips, the objects whose model_dump_json() it
\* asked for (in order), and the value it returned or the error it raised.
Helper(llm, dumped, error, value) ==
    [llm |-> llm, dumped |-> dumped, error |-> error, value |-> value]

\* data_describer(input_data): the @prompt call; its text is never used.
data_describer(data) ==
    Attempts(Request("data_describer", "str", Null, Some(Str(data))), {Text})

\* data_transformer(query, data), lines 20-29.
data_transformer(query, data) ==
    {Helper(a1, <<>>, "LLMError", NoValue) :
        a1 \in {a \in data_describer(data) : ~Succeeded(a)}}
    \cup
    {IF Succeeded(a2)
     THEN Helper(a1 \o a2, <<data>>, "none", Response(a2))
     ELSE Helper(a1 \o a2, <<data>>, "LLMError", NoValue) :
        a1 \in {a \in data_describer(data) : Succeeded(a)},
        a2 \in Attempts(Request("Forge.generate", "TransportationInputs",
                                Some(query), Some(Json(data))), Inputs)}

\* The text line 36 builds from the three serialized parts.
AnswerContext(input_data, output_data, model_metadata) ==
    [input_data     |-> Json(input_data),
     output_data    |-> Json(output_data),
     model_metadata |-> model_metadata]

\* answer_query if a str output were put into the context as it is.
answer_query_StrAccepted(query, input_data, output_data, model_metadata) ==
    {IF Succeeded(a)
     THEN Helper(a, <<input_data, output_data>>, "none", Response(a))
     ELSE Helper(a, <<input_data, output_data>>, "LLMError", NoValue) :
        a \in Attempts(Request("Forge.generate", "str", Some(query), Null),
                       {Text})}

\* answer_query(query, input_data, output_data, model_metadata), lines 32-39.
\* A str has no model_dump_json (AttributeError at line 35).  Line 36 builds
\* the context into `answer`; line 38 sends forge.generate(query) and assigns
\* its result to `answer`: the context is in no request.
answer_query(query, input_data, output_data, model_metadata) ==
    IF output_data.kind = "str"
    THEN {Helper(<<>>, <<input_data, output_data>>, "AttributeError", NoValue)}
    ELSE {IF Succeeded(a)
          THEN Helper(a, <<input_data, output_data>>, "none", Response(a))
          ELSE Helper(a, <<input_data, output_data>>, "LLMError", NoValue) :
             a \in Attempts(Request("Forge.generate", "str", Some(query), Null),
                            {Text})}

-----------------------------------------------------------------------------
(* explainer.py: GurobiInterrogator *)

\* __init__, lines 41-44, given the outcome of get_solution.
GurobiInterrogator(input_data, o) ==
    [kind           |-> "GurobiInterrogator",
     input_data     |-> input_data,
     output_data    |-> o.ret,
     model_metadata |-> get_metadata_as_json(o.model)]

\* what_if assigns no attribute of self (lines 61-62).
AfterWhatIf_Refreshed(self, new_inputs, o) ==
    [self EXCEPT !.model_metadata = get_metadata_as_json(o.model)]

AfterWhatIf_Cumulative(self, new_inputs, o) ==
    [self EXCEPT !.input_data = new_inputs, !.output_data = o.ret]

AfterWhatIf(self, new_inputs, o) == self

\* interrogator = GurobiInterrogator(trnsprt_model, i)
Construct(i) ==
    /\ interrogator = Unset
    /\ \E o \in get_solution(model, i, solver) :
          /\ model' = o.model
          /\ interrogator' = IF o.error = "none"
                             THEN GurobiInterrogator(i, o) ELSE interrogator
          /\ last' = Did("construct", i, o, <<>>, <<>>)
    /\ UNCHANGED <<solver, prev, instances>>

\* interrogator.answer(q)
Answer(q) ==
    /\ interrogator # Unset
    /\ \E h \in answer_query(q, interrogator.input_data, interrogator.output_data,
                             interrogator.model_metadata) :
          last' = Did("answer", q,
                      Outcome(model, h.value, h.error, 0, 0, 0), h.llm, h.dumped)
    /\ UNCHANGED <<solver, model, interrogator, prev, instances>>

\* interrogator.explain(q)
Explain(q) ==
    /\ interrogator # Unset
    /\ last' = Did("explain", q,
                   Outcome(model, NoValue, "NotImplementedError", 0, 0, 0),
                   <<>>, <<>>)
    /\ UNCHANGED <<solver, model, interrogator, prev, instances>>

\* interrogator.what_if(q)
WhatIf(q) ==
    /\ interrogator # Unset
    /\ \E h \in data_transformer(q, interrogator.input_data) :
          IF h.error # "none"
          THEN /\ last' = Did("what_if", q,
                              Outcome(model, NoValue, h.error, 0, 0, 0),
                              h.llm, h.dumped)
               /\ UNCHANGED <<model, interrogator>>
          ELSE \E o \in get_solution(model, h.value, solver) :
                  /\ model' = o.model
                  /\ interrogator' = AfterWhatIf(interrogator, h.value, o)
                  /\ last' = Did("what_if", q, o, h.llm, h.dumped)
    /\ UNCHANGED <<solver, prev, instances>>

NextInterrogator ==
    \/ \E i \in Inputs : Construct(i)
    \/ \E q \in Queries : Answer(q)
    \/ \E q \in Queries : Explain(q)
    \/ \E q \in Queries : WhatIf(q)

SpecInterrogator == Init /\ [][NextInterrogator]_vars

-----------------------------------------------------------------------------
(* The classes, and what Python does when one is called *)

\* Each class: its base, the methods it declares @abstractmethod, the methods
\* it defines, and whether it defines the __new__ that raises TypeError when
\* `cls is` that class.
Class(base, abstract, defines, guard) ==
    [base |-> base, abstract |-> abstract, defines |-> defines, guard |-> guard]

ClassTable ==
    [c \in {"BaseModel", "ABC"} |-> Class(Null, {}, {}, FALSE)]
    @@ "OptimizerSettings" :> Class(Some("BaseModel"), {}, {}, FALSE)
    @@ "OptInputModel" :> Class(Some("BaseModel"), {}, {}, TRUE)
    @@ "OptOutputModel" :> Class(Some("BaseModel"), {}, {}, TRUE)
    @@ "TransportationInputs" :> Class(Some("OptInputModel"), {}, {}, FALSE)
    @@ "TransportationOutputs" :> Class(Some("OptOutputModel"), {}, {}, FALSE)
    @@ "BaseOptModel" :>
          Class(Some("ABC"),
                {"_generate_model", "solve_model", "is_solved", "get_solution"},
                {}, FALSE)
    @@ "OptModel" :>
          Class(Some("BaseOptModel"), {},
                {"_generate_model", "solve_model", "is_solved", "get_solution"},
                TRUE)
    @@ "TransportationModel" :>
          Class(Some("OptModel"), {}, {"_generate_opt_model", "get_solution"}, FALSE)
    @@ "ModelMetaData" :>
          Class(Some("ABC"),
                {"get_basic_info", "get_variables_info", "get_constraints_info",
                 "get_solution_info", "get_metadata_as_json"},
                {}, FALSE)
    @@ "GurobiModelMetaData" :>
          Class(Some("ModelMetaData"), {},
                {"get_basic_info", "get_variables_info", "get_constraints_info",
                 "get_solution_info", "get_metadata_as_json"},
                FALSE)
    @@ "Interrogator" :>
          Class(Some("ABC"), {"answer", "explain", "what_if"}, {}, FALSE)
    @@ "GurobiInterrogator" :>
          Class(Some("Interrogator"), {}, {"answer", "explain", "what_if"}, FALSE)
    @@ "MockInterrogator" :>
          Class(Some("Interrogator"), {}, {"answer", "explain", "what_if"}, FALSE)

\* The classes of the repository (pydantic's BaseModel and abc's ABC are not).
Classes == DOMAIN ClassTable \ {"BaseModel", "ABC"}

\* The class and its bases, nearest first.
RECURSIVE Mro(_)
Mro(c) ==
    IF ClassTable[c].base = Null THEN <<c>>
    ELSE <<c>> \o Mro(ClassTable[c].base[1])

\* cls.__abstractmethods__: declared abstract and not overridden below.
RECURSIVE AbstractMethods(_)
AbstractMethods(c) ==
    ClassTable[c].abstract
    \cup (IF ClassTable[c].base = Null THEN {}
          ELSE AbstractMethods(ClassTable[c].base[1]) \ ClassTable[c].defines)

\* The __new__ that runs for cls is the nearest one in its bases; the guard
\* in it raises when `cls is` the class that defines it.
GuardRaises_Subclasses(cls) ==
    \E k \in 1..Len(Mro(cls)) : ClassTable[Mro(cls)[k]].guard

GuardRaises(cls) ==
    \E k \in 1..Len(Mro(cls)) :
        /\ ClassTable[Mro(cls)[k]].guard
        /\ \A j \in 1..(k - 1) : ~ClassTable[Mro(cls)[j]].guard
        /\ cls = Mro(cls)[k]

\* cls(...): the guard, then object.__new__, which refuses a class that still
\* has abstract methods.
CannotInstantiate(cls) == GuardRaises(cls) \/ AbstractMethods(cls) # {}

isinstance(cls, base) == base \in RangeOf(Mro(cls))

\* cls(...) with arguments its __init__ accepts.
Instantiate(cls) ==
    /\ instances' = IF CannotInstantiate(cls) THEN instances
                    ELSE instances \cup {cls}
    /\ last' = Did("new", cls,
                   Outcome(model,
                           IF CannotInstantiate(cls) THEN NoValue
                           ELSE [kind |-> cls],
                           IF CannotInstantiate(cls) THEN "TypeError" ELSE "none",
                           0, 0, 0),
                   <<>>, <<>>)
    /\ UNCHANGED <<solver, model, interrogator, prev>>

NextClasses == \E cls \in Classes : Instantiate(cls)

SpecClasses == Init /\ [][NextClasses]_vars

-----------------------------------------------------------------------------
(* is_solved on a model in each status of the enumeration *)

InitStatus ==
    /\ solver \in Solvers
    /\ model \in {[gp_Model(i) EXCEPT !.Status = st] :
                     i \in {j \in Inputs : WellKeyed(j)}, st \in StatusCodes}
    /\ interrogator = Unset
    /\ last = NoOp
    /\ prev = NoOp
    /\ instances = {}

NextStatus == IsSolved

SpecStatus == InitStatus /\ [][NextStatus]_vars

-----------------------------------------------------------------------------
(* The claims *)

IsOutputs(v) == v.kind = "TransportationOutputs"

\* C1 (checked under Spec; stated as claimed): when get_solution is called
\* twice in a row with the same input and the first call ended OPTIMAL, the
\* second call runs no optimize() and returns the same flows.
C1_NoResolve ==
    (/\ last.op = "get_solution"
     /\ prev.op = "get_solution"
     /\ prev.arg = last.arg
     /\ prev.error = "none"
     /\ IsOutputs(prev.ret)
     /\ prev.ret.status = OPTIMAL)
    => /\ last.solves = 0
       /\ last.error = "none"
       /\ IsOutputs(last.ret)
       /\ last.ret.solution = prev.ret.solution

\* C2 (checked under SpecStatus): for a model in any status of the
\* enumeration, is_solved() is true exactly for OPTIMAL and TIME_LIMIT; the
\* third constant compared, INTEGER, is no status of the enumeration, so no
\* other status is accepted.
C2_IsSolved ==
    /\ model.Status \in StatusCodes
    /\ \A st \in StatusCodes : ~PyEq(st, GRB_INTEGER)
    /\ last.op = "is_solved" =>
          /\ last.error = "none"
          /\ last.ret.value = (model.Status \in {OPTIMAL, TIME_LIMIT})

C2_Witness ==
    /\ last.op = "is_solved"
    /\ model.Status = TIME_LIMIT
    /\ last.ret.value = TRUE

ClaimedFlows ==
    (<<"W1", "C2">> :> 10 @@ <<"W1", "C3">> :> 10 @@
     <<"W2", "C1">> :> 10 @@ <<"W2", "C3">> :> 20)

AmendedFlows ==
    (<<"W1", "C3">> :> 20 @@ <<"W2", "C1">> :> 10 @@
     <<"W2", "C2">> :> 10 @@ <<"W2", "C3">> :> 10)

\* A plan given by its positive flows, as a value for every variable.
AllFlows(lp, f) == [p \in DOMAIN lp.vars |-> IF p \in DOMAIN f THEN f[p] ELSE 0]

\* C3 (checked under Spec; stated as claimed): get_solution on the example
\* data returns status OPTIMAL, total cost 90 and the flows W1->C2:10,
\* W1->C3:10, W2->C1:10, W2->C3:20.
C3_Cost90 ==
    (last.op = "get_solution" /\ last.arg = Example)
    => /\ last.error = "none"
       /\ IsOutputs(last.ret)
       /\ last.ret.status = OPTIMAL
       /\ last.ret.total_cost = 90
       /\ last.ret.solution = ClaimedFlows

\* C3 (amended): get_solution on the example data returns status OPTIMAL and
\* total cost 100, with an optimal plan of that cost; W1->C3:20, W2->C1:10,
\* W2->C2:10, W2->C3:10 is such a plan, while the flows the claim names are
\* feasible and cost 140.
C3_Cost100 ==
    (last.op = "get_solution" /\ last.arg = Example)
    => LET lp == LP(gp_Model(Example))
       IN  /\ last.error = "none"
           /\ IsOutputs(last.ret)
           /\ last.ret.status = OPTIMAL
           /\ last.ret.total_cost = 100
           /\ AllFlows(lp, last.ret.solution) \in Feasible(lp)
           /\ Objective(lp, AllFlows(lp, last.ret.solution)) = 100
           /\ \A x \in Feasible(lp) : Objective(lp, x) >= 100
           /\ AllFlows(lp, AmendedFlows) \in Feasible(lp)
           /\ Objective(lp, AllFlows(lp, AmendedFlows)) = 100
           /\ AllFlows(lp, ClaimedFlows) \in Feasible(lp)
           /\ Objective(lp, AllFlows(lp, ClaimedFlows)) = 140

C3_Witness ==
    /\ last.op = "get_solution"
    /\ last.arg = Example
    /\ IsOutputs(last.ret)
    /\ last.ret.total_cost = 100
    /\ last.ret.solution = AmendedFlows

\* C4 (checked under SpecInterrogator; stated as claimed): every request
\* answer(query) sends to the language model holds the user's query and the
\* context made of the serialized input, output and metadata.
C4_ContextSent ==
    (last.op = "answer" /\ interrogator # Unset)
    => \A k \in 1..Len(last.llm) :
          /\ last.llm[k].request.query = Some(last.arg)
          /\ last.llm[k].request.context =
                Some(AnswerContext(interrogator.input_data,
                                   interrogator.output_data,
                                   interrogator.model_metadata))

\* C5 (checked under SpecInterrogator; stated as claimed): once the
\* interrogator exists, the metadata it holds is the one extracted from the
\* solver state the most recent solve produced.
C5_Fresh ==
    (interrogator # Unset /\ model # Unset)
    => interrogator.model_metadata = get_metadata_as_json(model)

\* C5 (amended): the metadata is extracted once, at construction, from the
\* solver state the construction-time solve produced, and no later operation
\* (a what_if that solves again included) replaces it.
C5_Snapshot ==
    /\ [](last.op = "construct" /\ last.error = "none"
            => /\ last.solves = 1
               /\ interrogator.model_metadata = get_metadata_as_json(model))
    /\ [][interrogator # Unset
            => interrogator'.model_metadata = interrogator.model_metadata]_vars

C5_Witness ==
    /\ last.op = "what_if"
    /\ last.error = "none"
    /\ last.solves = 1
    /\ interrogator.model_metadata # get_metadata_as_json(model)

\* C6 (checked under Spec): metadata extracted from a model whose status is
\* not OPTIMAL has a null SolutionValue for every variable, a null
\* ShadowPrice for every constraint and a solution info holding the raw
\* status code alone; on an OPTIMAL model every variable and constraint has
\* a value; and the extraction leaves the solver object as it was.
C6_Gated ==
    /\ [](last.op = "get_metadata_as_json" /\ last.error = "none"
            => LET md == last.ret.json
               IN  /\ Len(md.Variables) = Len(model.varSeq)
                   /\ Len(md.Constraints) = Len(model.constrSeq)
                   /\ IF model.Status = OPTIMAL
                      THEN /\ \A k \in 1..Len(md.Variables) :
                                 md.Variables[k].SolutionValue # Null
                           /\ \A k \in 1..Len(md.Constraints) :
                                 md.Constraints[k].ShadowPrice # Null
                      ELSE /\ \A k \in 1..Len(md.Variables) :
                                 md.Variables[k].SolutionValue = Null
                           /\ \A k \in 1..Len(md.Constraints) :
                                 md.Constraints[k].ShadowPrice = Null
                           /\ DOMAIN md.Solution = {"Status"}
                           /\ md.Solution.Status = model.Status)
    /\ [][last'.op = "get_metadata_as_json" => model' = model]_vars

C6_Witness ==
    /\ last.op = "get_metadata_as_json"
    /\ last.error = "none"
    /\ model.Status = INFEASIBLE
    /\ \A k \in 1..Len(last.ret.json.Variables) :
          last.ret.json.Variables[k].SolutionValue = Null

\* C7 (checked under Spec): a get_solution whose solve ends in a status that
\* is not a success ran computeIIS and returned the diagnostic text, which
\* names at least one constraint or variable bound; it returned no output
\* record and raised nothing.
C7_Diagnosed ==
    (/\ last.op = "get_solution"
     /\ last.solves = 1
     /\ model.Status \notin {OPTIMAL, TIME_LIMIT})
    => /\ last.iis = 1
       /\ model.IIS # Null
       /\ last.error = "none"
       /\ last.ret.kind = "str"
       /\ Len(last.ret.constraints) + Len(last.ret.lower) + Len(last.ret.upper) >= 1

C7_Witness ==
    /\ last.op = "get_solution"
    /\ last.arg = ShiftDemand(Example, "C1", 1)
    /\ model.Status = INFEASIBLE
    /\ last.ret.kind = "str"
    /\ last.ret.lower = <<>>
    /\ Len(last.ret.constraints) = 5

SameRequest(a, b) == a.api = b.api /\ a = b

\* C8 (checked under SpecInterrogator): answer and what_if make each external
\* call once at most; a failed call is the last one made and the caller gets
\* the error; a what_if whose transform fails generates and solves nothing
\* and leaves the solver object and the interrogator's fields as they were.
C8_NoRetry ==
    /\ [](last.op \in {"answer", "what_if"}
            => /\ \A j, k \in 1..Len(last.llm) :
                     SameRequest(last.llm[j].request, last.llm[k].request) => j = k
               /\ Len(last.llm) <= (IF last.op = "answer" THEN 1 ELSE 2)
               /\ \A k \in 1..Len(last.llm) :
                     ~last.llm[k].ok => (k = Len(last.llm) /\ last.error = "LLMError")
               /\ (last.op = "what_if" /\ last.error = "LLMError")
                     => (last.gen = 0 /\ last.solves = 0 /\ last.iis = 0))
    /\ [][(last'.op = "what_if" /\ last'.error = "LLMError")
            => (model' = model /\ interrogator' = interrogator)]_vars

C8_Witness ==
    /\ last.op = "what_if"
    /\ last.error = "LLMError"
    /\ Len(last.llm) = 2
    /\ ~last.llm[2].ok
    /\ model # Unset

AbstractBases == {"OptInputModel", "OptOutputModel", "OptModel", "Interrogator"}

ConcreteSubclasses ==
    {"TransportationInputs", "TransportationOutputs", "TransportationModel",
     "GurobiInterrogator", "MockInterrogator"}

\* C9 (checked under SpecClasses): calling an abstract base type raises
\* TypeError and creates no instance; calling a concrete subclass succeeds
\* and creates an instance of its base type.
C9_Instantiation ==
    /\ instances \cap AbstractBases = {}
    /\ last.op = "new" =>
          /\ last.arg \in AbstractBases =>
                (last.error = "TypeError" /\ last.ret = NoValue)
          /\ last.arg \in ConcreteSubclasses =>
                /\ last.error = "none"
                /\ last.arg \in instances
                /\ last.ret.kind = last.arg
                /\ \E b \in AbstractBases : isinstance(last.ret.kind, b)

C9_Witness ==
    /\ last.op = "new"
    /\ last.arg = "OptModel"
    /\ last.error = "TypeError"
    /\ "TransportationModel" \in instances

\* C10 (checked under SpecInterrogator): the interrogator's input_data and
\* output_data are the ones stored at construction and no operation changes
\* them; every what_if hands that input record to the language model, every
\* answer asks for the serialization of that input and output; and after a
\* what_if that returns, the solver object is the one generated from the
\* transformed input.
C10_Frame ==
    /\ [](/\ (last.op = "construct" /\ last.error = "none")
               => (interrogator.input_data = last.arg
                   /\ interrogator.output_data = last.ret)
          /\ last.op = "what_if"
               => /\ Len(last.llm) >= 1
                  /\ \A k \in 1..Len(last.llm) :
                        last.llm[k].request.context
                           \in {Some(Str(interrogator.input_data)),
                                Some(Json(interrogator.input_data))}
                  /\ \A k \in 1..Len(last.dumped) :
                        last.dumped[k] = interrogator.input_data
          /\ (last.op = "what_if" /\ last.error = "none")
               => /\ Len(last.llm) = 2
                  /\ LP(model) = LP(gp_Model(Response(last.llm)))
          /\ last.op = "answer"
               => last.dumped = <<interrogator.input_data, interrogator.output_data>>)
    /\ [][interrogator # Unset
            => /\ interrogator'.input_data = interrogator.input_data
               /\ interrogator'.output_data = interrogator.output_data]_vars

C10_Witness ==
    /\ last.op = "what_if"
    /\ last.error = "none"
    /\ Response(last.llm) # interrogator.input_data
    /\ LP(model) # LP(gp_Model(interrogator.input_data))

\* C11 (checked under SpecInterrogator): a construction whose solve ends in a
\* status that is not a success raises nothing; it stores the diagnostic
\* string as output_data and the metadata of the unsolved model, whose
\* solution info holds a non-optimal status and no values.  From then on,
\* whatever has happened in between, every answer(query) raises
\* AttributeError when it asks the stored string for its serialization, and
\* has made no call to the language model and returned nothing.
C11_InfeasibleAnswer ==
    /\ []((/\ last.op = "construct"
           /\ last.solves = 1
           /\ model.Status \notin {OPTIMAL, TIME_LIMIT})
          => /\ last.error = "none"
             /\ interrogator # Unset
             /\ interrogator.input_data = last.arg
             /\ interrogator.output_data = Diagnostic(model)
             /\ interrogator.output_data.kind = "str"
             /\ ~IsOutputs(interrogator.output_data)
             /\ interrogator.model_metadata = get_metadata_as_json(model)
             /\ DOMAIN interrogator.model_metadata.json.Solution = {"Status"}
             /\ interrogator.model_metadata.json.Solution.Status
                   \in {INFEASIBLE, INF_OR_UNBD})
    /\ []((/\ last.op = "answer"
           /\ interrogator.output_data.kind = "str")
          => /\ last.error = "AttributeError"
             /\ last.ret = NoValue
             /\ last.llm = <<>>
             /\ last.dumped[Len(last.dumped)] = interrogator.output_data)
    /\ [][(interrogator # Unset /\ interrogator.output_data.kind = "str")
            => interrogator'.output_data = interrogator.output_data]_vars

\* An answer that fails on the stored diagnostic although a what_if in
\* between has solved a feasible program.
C11_Witness ==
    /\ last.op = "answer"
    /\ last.error = "AttributeError"
    /\ last.llm = <<>>
    /\ interrogator.output_data.kind = "str"
    /\ interrogator.model_metadata.json.Solution.Status = INFEASIBLE
    /\ model.Status = OPTIMAL

====
